---- MODULE Spec2Model ----
(***************************************************************************)
(* A model of source/layer/binocular/convolution.cpp of KuiperInfer: the   *)
(* ConvolutionLayer constructor, ConvolutionLayer::Forward and             *)
(* ConvolutionLayer::GetInstance (the layer builder).                      *)
(*                                                                         *)
(* Numbers.  Every uint32_t of the source is held as the integer in        *)
(* -2^31 .. 2^31-1 that is congruent to it modulo 2^32 (its two's          *)
(* complement reading), because TLC's integers are 32 bits wide: 0 .. 2^31-1*)
(* stand for themselves and -n stands for 2^32 - n.  AddU32, SubU32,       *)
(* DivU32 and LtU32 are the unsigned operations on that representation.    *)
(* Tensor cells are doubles in the source; the model uses small integers,  *)
(* on which double arithmetic is exact.                                    *)
(***************************************************************************)
EXTENDS Integers, Sequences, FiniteSets, TLC

VARIABLES
  op,           \* the operator description handed to GetInstance
  conv_layer,   \* GetInstance's out-parameter: NoLayer or the layer built
  buildStatus,  \* what GetInstance returned ("none" before it ran)
  heap,         \* the callers' input tensors, by identity (shared_ptr target)
  frame         \* per caller, its Forward call: arguments, position, result

vars == <<op, conv_layer, buildStatus, heap, frame>>

----------------------------------------------------------------------------
(* uint32_t arithmetic *)

\* 2^31 - 1, the largest value of the representation
MaxI32 == 2147483647

MinI32 == (-MaxI32) - 1

\* a + b modulo 2^32
AddU32(a, b) ==
  IF a >= 0 /\ b >= 0 /\ a > MaxI32 - b THEN (a - MaxI32 - 1) + (b - MaxI32 - 1)
  ELSE IF a < 0 /\ b < 0 /\ a < MinI32 - b THEN (a + MaxI32 + 1) + (b + MaxI32 + 1)
  ELSE a + b

\* -b modulo 2^32
NegU32(b) == IF b = MinI32 THEN MinI32 ELSE -b

\* a - b modulo 2^32
SubU32(a, b) == AddU32(a, NegU32(b))

\* a < b as unsigned numbers
LtU32(a, b) == IF (a < 0) = (b < 0) THEN a < b ELSE a >= 0

\* floor(a / b) as unsigned numbers, b # 0 (and below 2^30 when a >= 2^31)
DivU32(a, b) ==
  IF b < 0 THEN (IF LtU32(a, b) THEN 0 ELSE 1)
  ELSE IF a >= 0 THEN a \div b
  ELSE IF b = 1 THEN a
  ELSE LET lo == a + MaxI32 + 1     \* a = lo + 2^31 as an unsigned number
       IN (lo \div b) + (MaxI32 \div b) + (((lo % b) + (MaxI32 % b) + 1) \div b)

\* A plane dimension the allocator can serve.  2^30 rows of doubles are
\* 8 GiB per column: such a request ends in std::bad_alloc.
CanAlloc(n) == n >= 0 /\ n <= MaxI32 \div 2

----------------------------------------------------------------------------
(* Tensor: (channels, rows, cols) and one double per cell, 0-based. *)

Cells(ch, r, c) == (0..(ch - 1)) \X (0..(r - 1)) \X (0..(c - 1))

\* Tensor(channels, rows, cols): all cells zero
NewTensor(ch, r, c) ==
  [channels |-> ch, rows |-> r, cols |-> c, data |-> [x \in Cells(ch, r, c) |-> 0]]

\* Tensor::Padding({p, p, p, p}, 0): p zero rows and columns on every side
Padding(T, p) ==
  [channels |-> T.channels, rows |-> T.rows + 2 * p, cols |-> T.cols + 2 * p,
   data |-> [x \in Cells(T.channels, T.rows + 2 * p, T.cols + 2 * p) |->
               IF /\ x[2] >= p /\ x[2] < T.rows + p
                  /\ x[3] >= p /\ x[3] < T.cols + p
               THEN T.data[<<x[1], x[2] - p, x[3] - p>>] ELSE 0]]

\* arma::accu(region % kernel_channel) for the window with top left (r, c)
Accu(X, K, ic, r, c) ==
  LET RECURSIVE Sum(_)
      Sum(S) == IF S = {} THEN 0
                ELSE LET d == CHOOSE d \in S : TRUE
                     IN X.data[<<ic, r + d[1], c + d[2]>>] * K.data[<<ic, d[1], d[2]>>]
                        + Sum(S \ {d})
  IN Sum((0..(K.rows - 1)) \X (0..(K.cols - 1)))

----------------------------------------------------------------------------
(* The layer *)

NoLayer == [kind |-> "none"]

\* ConvolutionLayer::ConvolutionLayer: padding_, stride_, use_bias_ stored as
\* given; one zero weight tensor per output channel, and one 1x1x1 bias
\* tensor per output channel when use_bias
ConvolutionLayer(output_channel, in_channel, kernel_h, kernel_w, padding, stride, use_bias) ==
  [kind |-> "Convolution",
   padding_ |-> padding, stride_ |-> stride, use_bias_ |-> use_bias,
   weights_ |-> [i \in 1..output_channel |-> NewTensor(in_channel, kernel_h, kernel_w)],
   bias_ |-> IF use_bias THEN [i \in 1..output_channel |-> NewTensor(1, 1, 1)] ELSE <<>>]

\* The constructor's allocations fail (std::bad_alloc leaves the constructor)
\* when a dimension converted to uint32_t is out of the allocator's reach.
ConstructorThrows(output_channel, in_channel, kernel_h, kernel_w) ==
  \/ ~CanAlloc(output_channel)
  \/ output_channel > 0 /\ (~CanAlloc(in_channel) \/ ~CanAlloc(kernel_h) \/ ~CanAlloc(kernel_w))

\* set_weights: the flattened payload fills the weight tensors in order, each
\* in (channel, row, column) order
SetWeights(L, values) ==
  [L EXCEPT !.weights_ =
     [k \in 1..Len(L.weights_) |->
        LET W == L.weights_[k]
            vol == W.channels * W.rows * W.cols
        IN [W EXCEPT !.data = [x \in DOMAIN W.data |->
              values[(k - 1) * vol + x[1] * W.rows * W.cols + x[2] * W.cols + x[3] + 1]]]]]

\* the number of cells of all weight tensors
WeightVolume(L) ==
  IF Len(L.weights_) = 0 THEN 0
  ELSE Len(L.weights_) * L.weights_[1].channels * L.weights_[1].rows * L.weights_[1].cols

\* set_bias: one scalar of the payload per bias tensor, in order
SetBias(L, values) ==
  [L EXCEPT !.bias_ = [k \in 1..Len(L.bias_) |->
      [L.bias_[k] EXCEPT !.data = [x \in DOMAIN L.bias_[k].data |-> values[k]]]]]

----------------------------------------------------------------------------
(* ConvolutionLayer::GetInstance *)

\* a parameter of the description: present with the tag wanted?
HasParam(o, name) == name \in DOMAIN o.params

TagIs(o, name, tag) == o.params[name].tag = tag

\* lines 112-173: the six find / dynamic_cast pairs, in source order
ParamFailure(o) ==
  IF ~HasParam(o, "in_channels") \/ ~TagIs(o, "in_channels", "Int")
    THEN "kParameterMissingInChannel"
  ELSE IF ~HasParam(o, "out_channels") \/ ~TagIs(o, "out_channels", "Int")
    THEN "kParameterMissingOutChannel"
  ELSE IF ~HasParam(o, "padding") \/ ~TagIs(o, "padding", "IntArray")
    THEN "kParameterMissingPadding"
  ELSE IF ~HasParam(o, "bias") \/ ~TagIs(o, "bias", "Bool")
    THEN "kParameterMissingUseBias"
  ELSE IF ~HasParam(o, "stride") \/ ~TagIs(o, "stride", "IntArray")
    THEN "kParameterMissingStride"
  ELSE IF ~HasParam(o, "kernel_size") \/ ~TagIs(o, "kernel_size", "IntArray")
    THEN "kParameterMissingKernel"
  ELSE "none"

\* lines 175-181: CHECK(kernels.size() == dims) and its two siblings; a
\* failed CHECK ends the process
dims == 2

ChecksPass(o) ==
  /\ Len(o.params["kernel_size"].value) = dims
  /\ Len(o.params["stride"].value) = dims
  /\ Len(o.params["padding"].value) = dims

\* lines 184-187
Construct(o) ==
  ConvolutionLayer(o.params["out_channels"].value, o.params["in_channels"].value,
                   o.params["kernel_size"].value[1], o.params["kernel_size"].value[2],
                   o.params["padding"].value[1], o.params["stride"].value[1],
                   o.params["bias"].value)

\* lines 190-219: the attributes, on the layer already constructed
LoadAttributes(o, L) ==
  IF "bias" \notin DOMAIN o.attribute
    THEN [status |-> "kParameterMissingAttrBias", layer |-> L]
  ELSE IF \/ Len(o.attribute["bias"].shape) = 0
          \/ o.attribute["bias"].shape[1] # o.params["out_channels"].value
    THEN [status |-> "kParameterMissingAttrBias", layer |-> L]
  ELSE LET B == SetBias(L, o.attribute["bias"].values)
       IN IF "weight" \notin DOMAIN o.attribute
            THEN [status |-> "kParameterMissingAttrWeight", layer |-> B]
          ELSE IF Len(o.attribute["weight"].shape) = 0
            THEN [status |-> "kParameterMissingAttrWeight", layer |-> B]
          ELSE IF Len(o.attribute["weight"].values) # WeightVolume(B)
            THEN [status |-> "Aborted", layer |-> B]
          ELSE [status |-> "kParameterParseSuccess",
                layer |-> SetWeights(B, o.attribute["weight"].values)]

\* the whole of GetInstance: the status returned and the out-parameter.
\* "Aborted" is a failed CHECK, "Thrown" an exception leaving the function.
GetInstance(o) ==
  IF ParamFailure(o) # "none" THEN [status |-> ParamFailure(o), layer |-> NoLayer]
  ELSE IF ~ChecksPass(o) THEN [status |-> "Aborted", layer |-> NoLayer]
  ELSE IF ConstructorThrows(o.params["out_channels"].value, o.params["in_channels"].value,
                            o.params["kernel_size"].value[1], o.params["kernel_size"].value[2])
    THEN [status |-> "Thrown", layer |-> NoLayer]
  ELSE LoadAttributes(o, Construct(o))

----------------------------------------------------------------------------
(* ConvolutionLayer::Forward, one batch item *)

NoTensor == [kind |-> "null"]

\* OutputDim with the stride left out of the quotient
OutputDimIgnoringStride(L, in, ker) == AddU32(SubU32(in, ker), 1)

\* lines 61-62: uint32_t(std::floor((in - ker) / stride_ + 1)), all uint32_t
OutputDim(L, in, ker) == AddU32(DivU32(SubU32(in, ker), L.stride_), 1)

\* lines 82-83: the bound of the r (c) loop, in - ker + 1 as uint32_t
LoopBound(in, ker) == AddU32(SubU32(in, ker), 1)

\* line 84: submat(r, c, r + kernel_h - 1, c + kernel_w - 1) lies inside the
\* plane (Armadillo's bounds check: first <= last and last < n_rows, n_cols)
WindowInside(X, K, r, c) ==
  LET r2 == SubU32(AddU32(r, K.rows), 1)
      c2 == SubU32(AddU32(c, K.cols), 1)
  IN /\ ~LtU32(r2, r) /\ LtU32(r2, X.rows)
     /\ ~LtU32(c2, c) /\ LtU32(c2, X.cols)

\* OutputCell with row and column exchanged
OutputCellTransposed(L, r, c) == <<DivU32(c, L.stride_), DivU32(r, L.stride_)>>

\* line 85: the output cell of the window at (r, c)
OutputCell(L, r, c) == <<DivU32(r, L.stride_), DivU32(c, L.stride_)>>

\* KernelStatus with the channel check placed before the output-size check
KernelStatusChannelFirst(L, X, K, out) ==
  IF K.channels # X.channels THEN "kInferFailedChannelParameterError"
  ELSE IF L.stride_ = 0 THEN "DivByZero"
  ELSE IF AddU32(DivU32(SubU32(X.rows, K.rows), L.stride_), 1) = 0
          \/ AddU32(DivU32(SubU32(X.cols, K.cols), L.stride_), 1) = 0
    THEN "kInferFailedOutputSizeError"
  ELSE IF /\ out = NoTensor
          /\ ~(/\ CanAlloc(AddU32(DivU32(SubU32(X.rows, K.rows), L.stride_), 1))
               /\ CanAlloc(AddU32(DivU32(SubU32(X.cols, K.cols), L.stride_), 1)))
    THEN "BadAlloc"
  ELSE "ok"

\* lines 61-75 for kernel K: the first exit taken, or "ok".  The output
\* tensor is allocated (line 69) between the two checks, once per item.
KernelStatus(L, X, K, out) ==
  IF L.stride_ = 0 THEN "DivByZero"
  ELSE IF OutputDim(L, X.rows, K.rows) = 0 \/ OutputDim(L, X.cols, K.cols) = 0
    THEN "kInferFailedOutputSizeError"
  ELSE IF /\ out = NoTensor
          /\ ~(CanAlloc(OutputDim(L, X.rows, K.rows)) /\ CanAlloc(OutputDim(L, X.cols, K.cols)))
    THEN "BadAlloc"
  ELSE IF K.channels # X.channels THEN "kInferFailedChannelParameterError"
  ELSE "ok"

\* lines 82-83: the values the loop variable takes in
\* for (r = from; r < bound; r += stride_)
RECURSIVE Positions(_, _, _)
Positions(from, bound, stride) ==
  IF LtU32(from, bound) THEN <<from>> \o Positions(AddU32(from, stride), bound, stride)
  ELSE <<>>

\* lines 83-86: the c loop of row r, over the positions cs still to visit
RECURSIVE ConvCols(_, _, _, _, _, _, _, _)
ConvCols(L, X, K, k, ic, r, cs, out) ==
  IF cs = <<>> THEN [st |-> "ok", out |-> out]
  ELSE IF ~WindowInside(X, K, r, Head(cs)) THEN [st |-> "OutOfBounds", out |-> out]
  ELSE LET cell == <<k - 1>> \o OutputCell(L, r, Head(cs))
       IN IF cell \notin DOMAIN out.data THEN [st |-> "OutOfBounds", out |-> out]
          ELSE ConvCols(L, X, K, k, ic, r, Tail(cs),
                        [out EXCEPT !.data[cell] = @ + Accu(X, K, ic, r, Head(cs))])

\* lines 82-87: the r loop of input channel ic, over the positions rs still
\* to visit
RECURSIVE ConvRows(_, _, _, _, _, _, _)
ConvRows(L, X, K, k, ic, rs, out) ==
  IF rs = <<>> THEN [st |-> "ok", out |-> out]
  ELSE LET row == ConvCols(L, X, K, k, ic, Head(rs),
                           Positions(0, LoopBound(X.cols, K.cols), L.stride_), out)
       IN IF row.st # "ok" THEN row
          ELSE ConvRows(L, X, K, k, ic, Tail(rs), row.out)

\* lines 78-88: the ic loop of kernel k
RECURSIVE ConvChannels(_, _, _, _, _, _)
ConvChannels(L, X, K, k, ic, out) ==
  IF ~(ic < X.channels) THEN [st |-> "ok", out |-> out]
  ELSE LET ch == ConvRows(L, X, K, k, ic,
                          Positions(0, LoopBound(X.rows, K.rows), L.stride_), out)
       IN IF ch.st # "ok" THEN ch ELSE ConvChannels(L, X, K, k, ic + 1, ch.out)

\* lines 90-99: bias_[k]'s first cell added to every cell of plane k
AddBias(L, k, out) ==
  IF Len(L.bias_) # 0 /\ L.use_bias_
    THEN [out EXCEPT !.data = [x \in DOMAIN out.data |->
            IF x[1] = k - 1 THEN out.data[x] + L.bias_[k].data[<<0, 0, 0>>]
            ELSE out.data[x]]]
  ELSE out

\* lines 56-100: the loop over the kernels, from kernel k on
RECURSIVE KernelLoop(_, _, _, _)
KernelLoop(L, X, k, out) ==
  IF ~(k <= Len(L.weights_)) THEN [st |-> "ok", out |-> out]
  ELSE LET K == L.weights_[k]
           st == KernelStatus(L, X, K, out)
       IN IF st # "ok" THEN [st |-> st, out |-> out]
          ELSE LET out1 == IF out = NoTensor
                           THEN NewTensor(Len(L.weights_), OutputDim(L, X.rows, K.rows),
                                          OutputDim(L, X.cols, K.cols))
                           ELSE out
                   conv == ConvChannels(L, X, K, k, 0, out1)
               IN IF conv.st # "ok" THEN conv
                  ELSE KernelLoop(L, X, k + 1, AddBias(L, k, conv.out))

\* lines 45-47: the input tensor after input->Padding(...), which pads the
\* tensor the batch refers to
PadInput(L, T) == IF L.padding_ # 0 THEN Padding(T, L.padding_) ELSE T

\* the padded tensor is within the allocator's reach
PaddingFits(L, T) ==
  \/ L.padding_ = 0
  \/ /\ CanAlloc(L.padding_)
     /\ CanAlloc(T.rows + 2 * L.padding_) /\ CanAlloc(T.cols + 2 * L.padding_)

\* lines 44-102 for one item: how it ended, the input tensor it leaves behind
\* and the output tensor to push
ForwardItem(L, T) ==
  IF ~PaddingFits(L, T) THEN [st |-> "BadAlloc", input |-> T, out |-> NoTensor]
  ELSE LET X == PadInput(L, T)
           res == KernelLoop(L, X, 1, NoTensor)
       IN IF res.st # "ok" THEN [st |-> res.st, input |-> X, out |-> NoTensor]
          ELSE IF res.out.channels * res.out.rows * res.out.cols = 0
            THEN [st |-> "Aborted", input |-> X, out |-> NoTensor]
          ELSE [st |-> "ok", input |-> X, out |-> res.out]

----------------------------------------------------------------------------
(* ConvolutionLayer::Forward, the whole call *)

\* lines 28-40: the three checks before the batch loop
EntryStatus(L, batch) ==
  IF Len(batch) = 0 THEN "kInferFailedInputEmpty"
  ELSE IF Len(L.weights_) = 0 THEN "kInferFailedWeightParameterError"
  ELSE IF L.use_bias_ /\ Len(L.bias_) # Len(L.weights_)
    THEN "kInferFailedBiasParameterError"
  ELSE "ok"

\* lines 43-103: the batch loop from item i on; H is the tensor store, outs
\* the caller's vector
RECURSIVE ItemLoop(_, _, _, _, _)
ItemLoop(L, H, batch, i, outs) ==
  IF ~(i <= Len(batch)) THEN [status |-> "kInferSuccess", heap |-> H, outputs |-> outs]
  ELSE LET res == ForwardItem(L, H[batch[i]])
           H1 == [H EXCEPT ![batch[i]] = res.input]
       IN IF res.st # "ok" THEN [status |-> res.st, heap |-> H1, outputs |-> outs]
          ELSE ItemLoop(L, H1, batch, i + 1, Append(outs, res.out))

\* Forward(inputs, outputs) run to its end
RunForward(L, H, batch, outs) ==
  IF EntryStatus(L, batch) # "ok"
    THEN [status |-> EntryStatus(L, batch), heap |-> H, outputs |-> outs]
  ELSE ItemLoop(L, H, batch, 1, outs)

\* What the caller observes of an end that is not a return.  A failed
\* allocation or Armadillo bounds check throws; an out-of-bounds access in a
\* build without bounds checks and an integer division by zero are undefined:
\* the process is killed, or (division yielding a value) spins in the
\* r += 0 loop.
Manifest(st) ==
  CASE st = "BadAlloc" -> {"Thrown"}
    [] st = "OutOfBounds" -> {"Thrown", "Aborted"}
    [] st = "DivByZero" -> {"Aborted", "Hang"}
    [] OTHER -> {st}

----------------------------------------------------------------------------
(* The inputs the model draws from *)

\* longest batch handed to Forward
MaxBatch == 2

\* Forward is followed only while every input tensor, padded in place, stays
\* within MaxDim rows and columns
MaxDim == 7

TensorIds == {1, 2}

Callers == {1, 2}

\* an input feature map with a different value in every cell
InputTensor(ch, r, c) ==
  [channels |-> ch, rows |-> r, cols |-> c,
   data |-> [x \in Cells(ch, r, c) |-> 3 + 7 * x[1] + 3 * x[2] + x[3]]]

InitialHeaps ==
  {[id \in TensorIds |-> IF id = 1 THEN t1 ELSE InputTensor(2, 2, 2)] :
     t1 \in {InputTensor(1, 1, 1), InputTensor(1, 2, 3)}}

RECURSIVE SeqsUpTo(_, _)
SeqsUpTo(S, n) ==
  IF n = 0 THEN {<<>>}
  ELSE SeqsUpTo(S, n - 1) \cup {Append(q, x) : q \in SeqsUpTo(S, n - 1), x \in S}

Batches == SeqsUpTo(TensorIds, MaxBatch)

\* what the caller's outputs vector may hold when Forward is called
Sentinel == NewTensor(1, 1, 1)

PriorOutputs == {<<>>, <<Sentinel>>}

Range(q) == {q[n] : n \in DOMAIN q}

\* an attribute blob of n values: 2, 3, 4, ... (weight) or 1, 2, ... (bias)
Payload(n, first) == [m \in 1..n |-> first + m - 1]

\* a well-formed description of a Conv2d node
Description(in, out, kernel, padding, stride, bias) ==
  [params |->
     [in_channels |-> [tag |-> "Int", value |-> in],
      out_channels |-> [tag |-> "Int", value |-> out],
      padding |-> [tag |-> "IntArray", value |-> padding],
      bias |-> [tag |-> "Bool", value |-> bias],
      stride |-> [tag |-> "IntArray", value |-> stride],
      kernel_size |-> [tag |-> "IntArray", value |-> kernel]],
   attribute |->
     [bias |-> [shape |-> <<out>>, values |-> Payload(out, 1)],
      weight |-> [shape |-> <<out, in, kernel[1], kernel[2]>>,
                  values |-> Payload(out * in * kernel[1] * kernel[2], 2)]]]

KernelSizes == {<<1, 1>>, <<2, 1>>, <<2, 2>>, <<3, 2>>}

UsualDescriptions ==
  {Description(in, out, k, <<p, p>>, <<s, s>>, b) :
     in \in {1, 2}, out \in {1, 2}, k \in KernelSizes, p \in {0, 1}, s \in {1, 2},
     b \in BOOLEAN}

Base == Description(1, 1, <<1, 1>>, <<0, 0>>, <<1, 1>>, TRUE)

ParamNames == DOMAIN Base.params

ArrayParams == {"padding", "stride", "kernel_size"}

Without(o, name) ==
  [o EXCEPT !.params = [n \in (DOMAIN o.params) \ {name} |-> o.params[n]]]

WithParam(o, name, tag, value) ==
  [o EXCEPT !.params = [n \in DOMAIN o.params |->
      IF n = name THEN [tag |-> tag, value |-> value] ELSE o.params[n]]]

WithoutAttribute(o, name) ==
  [o EXCEPT !.attribute = [n \in (DOMAIN o.attribute) \ {name} |-> o.attribute[n]]]

\* descriptions with one parameter absent, of another variant, or an array
\* of a length other than 2
MalformedDescriptions ==
  {Without(Base, n) : n \in ParamNames}
  \cup {WithParam(Base, n, "String", "x") : n \in ParamNames}
  \cup {WithParam(Base, n, "IntArray", v) : n \in ArrayParams, v \in {<<1>>, <<1, 1, 1>>}}

\* descriptions of the right tags and lengths that carry 0 or negative
\* integers, differing second elements, no output channel, or attributes
\* that are absent or of the wrong size
OddDescriptions ==
  {WithParam(Base, "stride", "IntArray", v) : v \in {<<0, 0>>, <<-1, -1>>, <<1, 2>>}}
  \cup {WithParam(Base, "padding", "IntArray", v) : v \in {<<-1, -1>>, <<1, 0>>}}
  \cup {Description(1, 1, k, <<0, 0>>, <<1, 1>>, TRUE) : k \in {<<0, 1>>, <<1, 0>>, <<-1, 1>>}}
  \cup {Description(1, 1, <<2, 2>>, <<0, 0>>, <<-1, -1>>, b) : b \in BOOLEAN}
  \cup {Description(1, 0, <<1, 1>>, <<0, 0>>, <<1, 1>>, b) : b \in BOOLEAN}
  \cup {WithoutAttribute(Base, n) : n \in DOMAIN Base.attribute}
  \cup {[Base EXCEPT !.attribute["bias"].shape = q] : q \in {<<>>, <<2>>}}
  \cup {[Base EXCEPT !.attribute["weight"].shape = <<>>],
        [Base EXCEPT !.attribute["weight"].values = <<2, 3>>]}

Descriptions == UsualDescriptions \cup MalformedDescriptions \cup OddDescriptions

----------------------------------------------------------------------------
(* The state machine *)

NoOp == [kind |-> "none"]

\* A caller's Forward call.  inputs and outputsIn are the arguments as passed,
\* entry the tensors the batch referred to at that moment, outputs the
\* caller's vector as it is now, i the batch loop's index (1-based).
IdleFrame ==
  [pc |-> "idle", inputs |-> <<>>, entry |-> <<>>, outputsIn |-> <<>>,
   outputs |-> <<>>, i |-> 0, status |-> "none"]

Init ==
  /\ op = NoOp
  /\ conv_layer = NoLayer
  /\ buildStatus = "none"
  /\ heap \in InitialHeaps
  /\ frame = [t \in Callers |-> IdleFrame]

\* the builder runs once, during graph construction, before any Forward
Build(o) ==
  /\ buildStatus = "none"
  /\ op' = o
  /\ \E res \in {GetInstance(o)} :
       /\ buildStatus' = res.status
       /\ conv_layer' = res.layer
  /\ UNCHANGED <<heap, frame>>

\* ends of Forward that are not a return
Ended(st) == st \in {"Thrown", "Aborted", "Hang"}

\* a failed CHECK or a fatal signal has ended the process
ProcessDead == \E t \in Callers : frame[t].status = "Aborted"

Occurrences(batch, id) == Cardinality({n \in DOMAIN batch : batch[n] = id})

\* padding the batch in place keeps its tensors within MaxDim
WithinMaxDim(batch) ==
  \A id \in Range(batch) :
    conv_layer.padding_ \in 1..MaxDim =>
      /\ heap[id].rows + 2 * conv_layer.padding_ * Occurrences(batch, id) <= MaxDim
      /\ heap[id].cols + 2 * conv_layer.padding_ * Occurrences(batch, id) <= MaxDim

\* lines 26-42: caller t enters Forward(inputs, outputs); the three checks
\* before the batch loop.  Callers that run at the same time hold disjoint
\* batches.
Call(t, batch, prior) ==
  /\ buildStatus = "kParameterParseSuccess"
  /\ ~ProcessDead
  /\ frame[t].pc = "idle"
  /\ \A u \in Callers \ {t} :
       frame[u].pc = "loop" => Range(batch) \cap Range(frame[u].inputs) = {}
  /\ WithinMaxDim(batch)
  /\ frame' = [frame EXCEPT ![t] =
       [pc |-> IF EntryStatus(conv_layer, batch) = "ok" THEN "loop" ELSE "done",
        inputs |-> batch,
        entry |-> [id \in Range(batch) |-> heap[id]],
        outputsIn |-> prior,
        outputs |-> prior,
        i |-> 1,
        status |-> IF EntryStatus(conv_layer, batch) = "ok" THEN "none"
                   ELSE EntryStatus(conv_layer, batch)]]
  /\ UNCHANGED <<op, conv_layer, buildStatus, heap>>

\* lines 43-104: caller t runs one iteration of the batch loop; after the
\* last item Forward returns kInferSuccess
Item(t) ==
  /\ ~ProcessDead
  /\ frame[t].pc = "loop"
  /\ LET f == frame[t]
         id == f.inputs[f.i]
     IN \E res \in {ForwardItem(conv_layer, heap[id])} :
          /\ heap' = [heap EXCEPT ![id] = res.input]
          /\ IF res.st = "ok"
               THEN frame' = [frame EXCEPT ![t] =
                      [f EXCEPT !.outputs = Append(f.outputs, res.out),
                                !.i = f.i + 1,
                                !.pc = IF f.i = Len(f.inputs) THEN "done" ELSE "loop",
                                !.status = IF f.i = Len(f.inputs) THEN "kInferSuccess"
                                           ELSE "none"]]
               ELSE \E st \in Manifest(res.st) :
                      frame' = [frame EXCEPT ![t] = [f EXCEPT !.pc = "done", !.status = st]]
  /\ UNCHANGED <<op, conv_layer, buildStatus>>

\* the caller has taken the status and the outputs and is ready to call again
Collect(t) ==
  /\ ~ProcessDead
  /\ frame[t].pc = "done"
  /\ ~Ended(frame[t].status)
  /\ frame' = [frame EXCEPT ![t] = IdleFrame]
  /\ UNCHANGED <<op, conv_layer, buildStatus, heap>>

\* One caller (the graph executor) calling Forward again and again.
Next ==
  \/ \E o \in Descriptions : Build(o)
  \/ \E batch \in Batches, prior \in PriorOutputs : Call(1, batch, prior)
  \/ Item(1)
  \/ Collect(1)

Spec == Init /\ [][Next]_vars

\* the layers of the concurrent runs
ConcurrentDescriptions ==
  {Description(in, 1, k, <<p, p>>, <<1, 1>>, TRUE) :
     in \in {1, 2}, k \in {<<1, 1>>, <<2, 2>>}, p \in {0, 1}}
  \cup {WithParam(Base, "stride", "IntArray", <<0, 0>>)}

\* Two callers, each making one Forward call on the same layer; calls that
\* overlap in time hold disjoint batches.
NextConc ==
  \/ \E o \in ConcurrentDescriptions : Build(o)
  \/ \E t \in Callers, batch \in Batches : Call(t, batch, <<>>)
  \/ \E t \in Callers : Item(t)

SpecConc == Init /\ [][NextConc]_vars

----------------------------------------------------------------------------
(* Properties.  In the action properties a step of caller t "pushes" when it *)
(* is an iteration of the batch loop that appended an output tensor.         *)

Pushes(t) ==
  /\ frame[t].pc = "loop"
  /\ Len(frame'[t].outputs) = Len(frame[t].outputs) + 1

\* the tensor id of the item caller t's loop is at
ItemId(t) == frame[t].inputs[frame[t].i]

Last(q) == q[Len(q)]

\* The item meets Forward's size precondition for layer L: the layer's
\* padding is the non-negative number given, and the kernel is no taller and
\* no wider than the padded item.  T is the item before it is padded.
FitsKernel(L, T) ==
  /\ L.padding_ >= 0
  /\ \A n \in DOMAIN L.weights_ :
       /\ L.weights_[n].rows >= 1 /\ L.weights_[n].rows <= T.rows + 2 * L.padding_
       /\ L.weights_[n].cols >= 1 /\ L.weights_[n].cols <= T.cols + 2 * L.padding_

\* sum over S, a set of <<ic, dr, dc>>, of X[ic][i0 + dr][j0 + dc] * W[ic][dr][dc]
RECURSIVE SumProducts(_, _, _, _, _)
SumProducts(X, W, i0, j0, S) ==
  IF S = {} THEN 0
  ELSE LET d == CHOOSE d \in S : TRUE
       IN X.data[<<d[1], i0 + d[2], j0 + d[3]>>] * W.data[d]
          + SumProducts(X, W, i0, j0, S \ {d})

\* the value the contract gives cell (k, i, j) (0-based) of the output for
\* the padded item X
ConvCell(L, X, k, i, j) ==
  SumProducts(X, L.weights_[k + 1], i * L.stride_, j * L.stride_,
              DOMAIN L.weights_[k + 1].data)
  + (IF L.use_bias_ THEN L.bias_[k + 1].data[<<0, 0, 0>>] ELSE 0)

\* C1: every cell (k, i, j) of the output pushed for a batch item that meets
\* the preconditions equals the sum over the input channels ic and the kernel
\* offsets (dr, dc) of paddedInput[ic][i*stride+dr][j*stride+dc] *
\* weights[k][ic][dr][dc], plus bias[k] when use_bias (nothing otherwise).
\* paddedInput is the item as the loops of lines 77-99 read it.
C1_CellsAreWindowSums ==
  [][\A t \in Callers :
       (Pushes(t) /\ FitsKernel(conv_layer, heap[ItemId(t)])) =>
         LET O == Last(frame'[t].outputs)
             X == heap'[ItemId(t)]
         IN \A cell \in DOMAIN O.data :
              O.data[cell] = ConvCell(conv_layer, X, cell[1], cell[2], cell[3])]_vars

\* C1 witness: in_channels 1, out_channels 1, kernel 1x1, stride 1, padding 0,
\* weight 2, bias 1: the 1x1 input 3 has given the output 7
C1_Witness ==
  /\ op = Base
  /\ frame[1].status = "kInferSuccess"
  /\ frame[1].inputs = <<1>>
  /\ frame[1].entry[1] = InputTensor(1, 1, 1)
  /\ frame[1].entry[1].data[<<0, 0, 0>>] = 3
  /\ conv_layer.weights_[1].data[<<0, 0, 0>>] = 2
  /\ conv_layer.bias_[1].data[<<0, 0, 0>>] = 1
  /\ Last(frame[1].outputs).data = [x \in Cells(1, 1, 1) |-> 7]

\* floor(n / s) for n >= 0 and the uint32_t s # 0; a negative s stands for a
\* stride of 2^31 or more, above every n
FloorDiv(n, s) == IF s > 0 THEN n \div s ELSE 0

----------------------------------------------------------------------------
(* Forward's failure statuses.  A caller whose call has ended (pc = "done")  *)
(* stopped at item frame.i of its batch, or past the last item on success;   *)
(* with one caller, the tensor of that item is still as Forward left it.     *)

Returned(st) ==
  st \in {"kInferSuccess", "kInferFailedInputEmpty", "kInferFailedWeightParameterError",
          "kInferFailedBiasParameterError", "kInferFailedChannelParameterError",
          "kInferFailedOutputSizeError"}

\* the item a finished call stopped at satisfies the failure condition
StoppedAtItem(f) == f.i >= 1 /\ f.i <= Len(f.inputs)

StopTensor(f) == heap[f.inputs[f.i]]

\* the output size the code computes for the padded item X is invalid (with
\* stride 0 the division never yields a size)
SizeInvalid(L, X) ==
  /\ L.stride_ # 0
  /\ \E n \in DOMAIN L.weights_ :
       \/ OutputDim(L, X.rows, L.weights_[n].rows) = 0
       \/ OutputDim(L, X.cols, L.weights_[n].cols) = 0

ChannelsDiffer(L, X) == \E n \in DOMAIN L.weights_ : L.weights_[n].channels # X.channels

\* the first failure condition the finished call f satisfies, the per-item
\* conditions taken in the order given by sizeFirst
FirstFailure(L, f, sizeFirst) ==
  IF Len(f.inputs) = 0 THEN "kInferFailedInputEmpty"
  ELSE IF Len(L.weights_) = 0 THEN "kInferFailedWeightParameterError"
  ELSE IF L.use_bias_ /\ Len(L.bias_) # Len(L.weights_)
    THEN "kInferFailedBiasParameterError"
  ELSE IF ~StoppedAtItem(f) THEN "kInferSuccess"
  ELSE IF sizeFirst /\ SizeInvalid(L, StopTensor(f)) THEN "kInferFailedOutputSizeError"
  ELSE IF ChannelsDiffer(L, StopTensor(f)) THEN "kInferFailedChannelParameterError"
  ELSE IF SizeInvalid(L, StopTensor(f)) THEN "kInferFailedOutputSizeError"
  ELSE "none"

\* C3 as stated: the status Forward returns is the first, in the order
\* InputEmpty, WeightMissing, BiasParameterMismatch, ChannelMismatch,
\* OutputSizeInvalid, of the failure conditions the call satisfies.
C3_OrderAsStated ==
  \A t \in Callers :
    (frame[t].pc = "done" /\ Returned(frame[t].status)) =>
      frame[t].status = FirstFailure(conv_layer, frame[t], FALSE)

\* C3 amended: the status Forward returns is the first, in the order
\* InputEmpty, WeightMissing, BiasParameterMismatch, OutputSizeInvalid,
\* ChannelMismatch, of the failure conditions satisfied by the call and the
\* item it stops at; an item with a differing channel count and an invalid
\* computed output size is reported as OutputSizeInvalid.
C3_OrderInCode ==
  \A t \in Callers :
    (frame[t].pc = "done" /\ Returned(frame[t].status)) =>
      frame[t].status = FirstFailure(conv_layer, frame[t], TRUE)

\* C3 witness: a call has stopped at an item that has both a differing
\* channel count and an invalid computed output size
C3_Witness ==
  /\ frame[1].pc = "done"
  /\ Returned(frame[1].status)
  /\ frame[1].status # "kInferSuccess"
  /\ StoppedAtItem(frame[1])
  /\ SizeInvalid(conv_layer, StopTensor(frame[1]))
  /\ ChannelsDiffer(conv_layer, StopTensor(frame[1]))

\* the kernel is taller or wider than the padded item X
KernelExceeds(L, X) ==
  \E n \in DOMAIN L.weights_ : L.weights_[n].rows > X.rows \/ L.weights_[n].cols > X.cols

\* C4: whenever the kernel is taller or wider than the padded input, by any
\* amount and for any stride, Forward stops at that item with
\* OutputSizeInvalid (and so never runs the sliding-window loops on it).
C4_OversizedKernelRejected ==
  \A t \in Callers :
    (/\ frame[t].pc = "done"
     /\ conv_layer.stride_ >= 1
     /\ EntryStatus(conv_layer, frame[t].inputs) = "ok") =>
      \A j \in 1..Len(frame[t].inputs) :
        (j <= frame[t].i /\ KernelExceeds(conv_layer, heap[frame[t].inputs[j]])) =>
          (j = frame[t].i /\ frame[t].status = "kInferFailedOutputSizeError")

\* C5: a Forward that fails with the channel-mismatch status leaves the
\* caller's output sequence exactly as it was passed.
C5_NoOutputOnChannelMismatch ==
  \A t \in Callers :
    frame[t].status = "kInferFailedChannelParameterError" =>
      frame[t].outputs = frame[t].outputsIn

\* C6: a successful Forward on N inputs has appended exactly N outputs, and
\* output n is the convolution of input n as it was passed: a function of that
\* tensor and the layer alone.
C6_OutputDependsOnItsInputOnly ==
  \A t \in Callers :
    frame[t].status = "kInferSuccess" =>
      LET f == frame[t]
      IN /\ Len(f.outputs) = Len(f.outputsIn) + Len(f.inputs)
         /\ \A n \in 1..Len(f.inputs) :
              f.outputs[Len(f.outputsIn) + n] = ForwardItem(conv_layer, f.entry[f.inputs[n]]).out

\* the builder's signal for a parameter
SignalOf(name) ==
  CASE name = "in_channels" -> "kParameterMissingInChannel"
    [] name = "out_channels" -> "kParameterMissingOutChannel"
    [] name = "padding" -> "kParameterMissingPadding"
    [] name = "bias" -> "kParameterMissingUseBias"
    [] name = "stride" -> "kParameterMissingStride"
    [] name = "kernel_size" -> "kParameterMissingKernel"

TagWanted(name) ==
  CASE name \in {"in_channels", "out_channels"} -> "Int"
    [] name = "bias" -> "Bool"
    [] OTHER -> "IntArray"

\* the parameter is absent from the description, has the wrong tag, or is an
\* array of a length other than 2
Defective(o, name) ==
  \/ name \notin DOMAIN o.params
  \/ o.params[name].tag # TagWanted(name)
  \/ name \in ArrayParams /\ Len(o.params[name].value) # 2

\* C7: for a description with a defective required parameter, the builder
\* returns the failure signal of a defective parameter; it neither aborts nor
\* returns success.
C7_DefectiveParameterSignalled ==
  (buildStatus # "none" /\ \E name \in ParamNames : Defective(op, name)) =>
    \E name \in ParamNames : Defective(op, name) /\ buildStatus = SignalOf(name)

\* C8: a layer the builder returns with success has stride >= 1, kernel
\* height and width >= 1, and the padding given, which is >= 0.
C8_BuiltLayerIsWellFormed ==
  buildStatus = "kParameterParseSuccess" =>
    /\ LtU32(0, conv_layer.stride_)
    /\ \A n \in DOMAIN conv_layer.weights_ :
         conv_layer.weights_[n].rows >= 1 /\ conv_layer.weights_[n].cols >= 1
    /\ conv_layer.padding_ >= 0
    /\ conv_layer.padding_ = op.params["padding"].value[1]

\* C9: while callers run Forward at the same time on disjoint batches, no
\* step of a call writes the layer or any tensor but the outputs the call
\* allocated, and each call ends with the status and the outputs it would
\* have when run alone from the tensors it was passed.
C9_ConcurrentForwardIsolated ==
  /\ [][frame' # frame => (conv_layer' = conv_layer /\ heap' = heap)]_vars
  /\ [](\A t \in Callers :
          frame[t].pc = "done" =>
            LET f == frame[t]
                alone == RunForward(conv_layer, f.entry, f.inputs, f.outputsIn)
            IN f.status \in Manifest(alone.status) /\ f.outputs = alone.outputs)

\* C10: no step changes a tensor of an input batch, in shape or in values.
C10_InputsUnchanged == [][heap' = heap]_vars

====
